---- MODULE Spec2Model ----
(***************************************************************************)
(* Multimodal Math Mentor: the agent graph (parser, router, two solvers,   *)
(* verifier, explainer) run by main.py through graph.py, and the memory    *)
(* log written by rag.save_to_memory.                                      *)
(*                                                                         *)
(* A Python dict is a function whose DOMAIN is the set of keys present; a  *)
(* key that was never written is not in the DOMAIN.  Text is a string,     *)
(* except code and captured output, which are sequences of lines so that   *)
(* the fence stripping and the interpreter can be computed.                *)
(***************************************************************************)
EXTENDS Integers, Sequences, FiniteSets, TLC

VARIABLES
    state,          \* the graph's own channel values (StateGraph(AgentState))
    current_state,  \* run_agent_graph: the dict the caller accumulates
    scheduled,      \* nodes the graph has selected to run next
    in_progress,    \* nodes whose coroutine is awaiting its calls
    events,         \* astream events yielded and not yet consumed
    started,        \* per run: the nodes invoked, in order
    applied,        \* per run: the "<node> finished." lines the caller wrote
    run_status,     \* "idle" | "running" | "done" | "failed"
    final_result,   \* st.session_state.final_result
    parser_exc,     \* per run: the exception parser_agent caught as e, or "none"
    run_error,      \* per run: what raised the exception that ended it, or "none"
    exec_ended,     \* per run: how exec(code) ended, "none" before it ran
    extracted_text, \* st.session_state.extracted_text of the followed session
    edited_text,    \* content of its "Confirm Question:" box, "" if not shown
    env_key,        \* os.environ["OPENAI_API_KEY"] of the process, "" if unset
    user_api_key,   \* per session: st.session_state.user_api_key
    kb_dir,         \* Config.CHROMA_PATH: "absent" | "empty" | "populated"
    kb_docs,        \* number of documents in the vector index
    mem_file,       \* Config.MEMORY_FILE: Absent, Truncated or a list of entries
    mem_log,        \* the last list completely written to MEMORY_FILE
    mem_pc,         \* per save_to_memory call: its position
    mem_data,       \* per save_to_memory call: its local `data`
    ocr_in,         \* the image given to _run_ocr_sync
    ocr_out,        \* what _run_ocr_sync returned for it, once it has
    ing_b,          \* Config.RAG_BATCH_SIZE of the process
    ing_chunks,     \* process_and_index_files: chunked_docs
    ing_i,          \* its loop variable i
    ing_upserts,    \* the batches add_documents has taken, in issue order
    ing_pc          \* its position: "idle" | "loop" | "done" | "nothing" | "error"

graph_vars == <<state, current_state, scheduled, in_progress, events,
                started, applied, run_status, final_result, parser_exc,
                run_error, exec_ended>>
ui_vars == <<extracted_text, edited_text>>
key_vars == <<env_key, user_api_key>>
kb_vars == <<kb_dir, kb_docs>>
mem_vars == <<mem_file, mem_log, mem_pc, mem_data>>
ocr_vars == <<ocr_in, ocr_out>>
ing_vars == <<ing_b, ing_chunks, ing_i, ing_upserts, ing_pc>>
tool_vars == <<ocr_vars, ing_vars>>
vars == <<graph_vars, ui_vars, key_vars, kb_vars, mem_vars, tool_vars>>

----------------------------------------------------------------------------
(* Python dict helpers *)

EmptyDict == <<>>

\* a destructive rewrite: the update replaces the record
Merge_replacing(s, d) == d

\* dict.update / the graph's last-value channel write: keys of d overwrite
Merge(s, d) == d @@ s

HasKey(d, k) == k \in DOMAIN d

\* dict.get(k) for a flag: a missing key is None, which is falsy
GetFlag(d, k) == IF k \in DOMAIN d THEN d[k] ELSE FALSE

----------------------------------------------------------------------------
(* Node names and END *)

END == "__end__"
Nodes == {"parser", "router", "python_solver", "rag_solver", "verifier", "explainer"}
Solvers == {"python_solver", "rag_solver"}

Categories == {"calculation", "conceptual"}

----------------------------------------------------------------------------
(* Inputs the environment can supply *)

\* what an input step yields, and what the user can turn it into
RawInputs == {"integrate x^2 dx"}
ReviewTexts == RawInputs \cup {"integrate x^3 dx"}
InputModes == {"Text", "Image", "Audio"}

\* str.lower() on the three radio labels
Lower(mode) == CASE mode = "Text" -> "text"
                 [] mode = "Image" -> "image"
                 [] mode = "Audio" -> "audio"

\* values a ParsedProblem can take (problem_text, topic, needs_clarification)
ParsedProblems ==
    [problem_text : {"x^2"}, topic : {"Calculus"}, needs_clarification : BOOLEAN]

\* res.content of the code-writing call: lines, possibly fenced; <fence> stands
\* for the three-backquote Markdown fence
FENCE_PY == "<fence>python"
FENCE == "<fence>"
Contents == {
    <<FENCE_PY, "print(42)", FENCE>>,
    <<"x = 42">>,
    <<"print(42)", "1/0">>,
    <<"exit()">>,
    <<FENCE, FENCE>>,
    <<>> }

Answers == {"x^3/3 + C"}
Explanations == {"Step 1: apply the power rule."}

----------------------------------------------------------------------------
(* Results of a call that can fail, and of a stage *)

\* a model or retrieval call: it returns a value or raises
Returned(v) == [ok |-> TRUE, value |-> v]
Failed == [ok |-> FALSE]
CallResults(values) == {Returned(v) : v \in values} \cup {Failed}

\* the ways the parser's structured-output call fails: the reply does not
\* conform to ParsedProblem, or the model capability itself errors
FailureReasons == {"schema_violation", "capability_error"}
FailedWith(reason) == [ok |-> FALSE, reason |-> reason]
ParserCallResults ==
    {Returned(v) : v \in ParsedProblems} \cup {FailedWith(r) : r \in FailureReasons}

\* a stage coroutine: it returns its partial state update or raises
Update(d) == [raised |-> FALSE, update |-> d]
Raised == [raised |-> TRUE]

\* the exception that leaves a stage, by what raised it: a subscript of a
\* missing key, a model call, the executed code, the store, the retrieval
RaisedBy(cause) == [raised |-> TRUE, cause |-> cause]

----------------------------------------------------------------------------
(* config.py, agents.py, main.py: the credential *)

\* sessions of the one server process: session 1 is the one whose solve
\* request is followed, session 2 is another user's
Sessions == {1, 2}
KeyOf(s) == IF s = 1 THEN "sk-1" ELSE "sk-2"

\* Config.get_openai_key: os.getenv reads the process environment
get_openai_key(env) == env

\* get_llm: ChatOpenAI(api_key = Config.get_openai_key()) cannot be built
\* without a key
get_llm(env) ==
    IF get_openai_key(env) = "" THEN Failed ELSE Returned(get_openai_key(env))

\* a stage gets its model client first; outcome is what it does with it
WithLLM(env, outcome) ==
    IF get_llm(env).ok THEN outcome ELSE RaisedBy("credential")

----------------------------------------------------------------------------
(* agents.py: the sandboxed interpreter *)

IsFence(line) == line \in {FENCE_PY, FENCE}

\* res.content.replace(FENCE_PY, "").replace(FENCE, "").strip(): the fence
\* lines become blank lines, which strip() removes at both ends
StripFences(content) == SelectSeq(content, LAMBDA line : ~IsFence(line))

\* exec(code) under redirect_stdout, one statement at a time: what was
\* printed so far, and how execution ended ("ok", an Exception, or a
\* BaseException that is no Exception, such as SystemExit)
RECURSIVE Exec(_, _)
Exec(code, out) ==
    IF code = <<>> THEN [ended |-> "ok", out |-> out]
    ELSE CASE Head(code) = "print(42)" -> Exec(Tail(code), Append(out, "42"))
           [] Head(code) = "1/0" -> [ended |-> "exception", out |-> out]
           [] Head(code) = "exit()" -> [ended |-> "base_exception", out |-> out]
           [] OTHER -> Exec(Tail(code), out)

\* execute_python_math: stdout on success, "Error: <e>" for an Exception;
\* anything else leaves the function as a raised exception
execute_python_math(code) ==
    LET r == Exec(code, <<>>) IN
    CASE r.ended = "ok" -> Returned(r.out)
      [] r.ended = "exception" -> Returned(<<"Error: division by zero">>)
      [] OTHER -> Failed

----------------------------------------------------------------------------
(* rag.py: the knowledge store *)

NSeeds == 15
RetrieverK == 5

Min(a, b) == IF a < b THEN a ELSE b

\* initialize_vector_store: reuse a directory that exists and lists files,
\* otherwise seed.  seeding is how Chroma.from_documents ends: "ok", or an
\* error raised before ("error_early") or after ("error_late") the
\* client has created its files in the directory
initialize_vector_store(dir, docs, seeding) ==
    IF dir = "populated"
    THEN [raised |-> FALSE, dir |-> dir, docs |-> docs]
    ELSE CASE seeding = "ok" ->
                [raised |-> FALSE, dir |-> "populated", docs |-> docs + NSeeds]
           [] seeding = "error_late" ->
                [raised |-> TRUE, dir |-> "populated", docs |-> docs]
           [] OTHER ->
                [raised |-> TRUE, dir |-> dir, docs |-> docs]

Seedings == {"ok", "error_early", "error_late"}

\* retriever.ainvoke(query) with k = RetrieverK, each document formatted
\* as "[Source: ...]\n<content>"
FormattedDocs(docs) ==
    [i \in 1..Min(RetrieverK, docs) |-> "[Source: KB] chunk"]

----------------------------------------------------------------------------
(* agents.py: the six stages, each a function of the state it is given *)

CanReadProblem(st) ==
    HasKey(st, "parsed_problem") /\ HasKey(st["parsed_problem"], "problem_text")

\* a fallback that does not ask for clarification
parser_agent_proceeding(st, res) ==
    IF res.ok
    THEN Update([parsed_problem |-> res.value,
                 messages |-> <<"Parser: Extracted topic">>])
    ELSE Update([parsed_problem |-> [needs_clarification |-> FALSE],
                 messages |-> <<"Parser: Error parsing input.">>])

parser_agent(st, res) ==
    IF res.ok
    THEN Update([parsed_problem |-> res.value,
                 messages |-> <<"Parser: Extracted topic">>])
    ELSE Update([parsed_problem |-> [needs_clarification |-> TRUE],
                 messages |-> <<"Parser: Error parsing input.">>])

RouterMessage(category) ==
    IF category = "calculation" THEN "Router: Routing to calculation solver."
    ELSE "Router: Routing to conceptual solver."

router_agent(st, res) ==
    IF ~CanReadProblem(st) THEN RaisedBy("missing_field")
    ELSE IF ~res.ok THEN RaisedBy("model_call")
    ELSE Update([problem_category |-> res.value,
                 messages |-> <<RouterMessage(res.value)>>])

python_solver_agent(st, res, final_res) ==
    IF ~CanReadProblem(st) THEN RaisedBy("missing_field")
    ELSE IF ~res.ok THEN RaisedBy("model_call")
    ELSE LET code == StripFences(res.value)
             output == execute_python_math(code)
         IN  IF ~output.ok THEN RaisedBy("code_execution")
             ELSE IF ~final_res.ok THEN RaisedBy("model_call")
             ELSE Update([code_snippet |-> code,
                          code_output |-> output.value,
                          final_answer |-> final_res.value,
                          messages |-> <<"Solver: Executed Python calculation.">>])

\* the retrieval solver also reports its context as code output
rag_solver_agent_with_output(st, store, docs_res, res) ==
    IF ~CanReadProblem(st) \/ store.raised \/ ~docs_res.ok \/ ~res.ok
    THEN RaisedBy("model_call")
    ELSE Update([retrieved_docs |-> docs_res.value,
                 code_output |-> <<"context">>,
                 final_answer |-> res.value,
                 messages |-> <<"Solver: Used RAG.">>])

\* store is what initialize_vector_store returned, docs_res the retrieval
rag_solver_agent(st, store, docs_res, res) ==
    IF ~CanReadProblem(st) THEN RaisedBy("missing_field")
    ELSE IF store.raised THEN RaisedBy("store")
    ELSE IF ~docs_res.ok THEN RaisedBy("retrieval")
    ELSE IF ~res.ok THEN RaisedBy("model_call")
    ELSE Update([retrieved_docs |-> docs_res.value,
                 final_answer |-> res.value,
                 messages |-> <<"Solver: Used RAG.">>])

VerifierMessage(ok) ==
    IF ok THEN "Verifier: Solution is Correct." ELSE "Verifier: Solution is Incorrect."

verifier_agent(st, res) ==
    IF ~CanReadProblem(st) \/ ~HasKey(st, "final_answer") THEN RaisedBy("missing_field")
    ELSE IF ~res.ok THEN RaisedBy("model_call")
    ELSE Update([is_correct |-> res.value,
                 messages |-> <<VerifierMessage(res.value)>>])

explainer_agent(st, res) ==
    IF ~CanReadProblem(st) \/ ~HasKey(st, "final_answer") THEN RaisedBy("missing_field")
    ELSE IF ~res.ok THEN RaisedBy("model_call")
    ELSE Update([explanation |-> res.value])

----------------------------------------------------------------------------
(* graph.py: the edges *)

\* the clarification flag is not consulted
check_clarification_ignored(st) == "router"

check_clarification(st) ==
    IF GetFlag(st["parsed_problem"], "needs_clarification") THEN END ELSE "router"

\* the category is compared with a capitalised literal
route_workflow_capitalised(st) ==
    IF st["problem_category"] = "Calculation" THEN "python_solver" ELSE "rag_solver"

route_workflow(st) ==
    IF st["problem_category"] = "calculation" THEN "python_solver" ELSE "rag_solver"

\* the verdict is not consulted
check_correctness_ignored(st) == "explainer"

\* a failed verification goes back to the solver
check_correctness_retrying(st) ==
    IF st["is_correct"] THEN "explainer" ELSE "python_solver"

check_correctness(st) ==
    IF st["is_correct"] THEN "explainer" ELSE END

\* the key the branch function after node reads, if any
BranchKey(node) == CASE node = "parser" -> {"parsed_problem"}
                     [] node = "router" -> {"problem_category"}
                     [] node = "verifier" -> {"is_correct"}
                     [] OTHER -> {}

\* an unconditional edge to each solver next to the conditional one
Successors_fanout(node, st) ==
    CASE node = "parser" -> {check_clarification(st)} \ {END}
      [] node = "router" -> {"python_solver", "rag_solver"}
      [] node = "python_solver" -> {"verifier"}
      [] node = "rag_solver" -> {"verifier"}
      [] node = "verifier" -> {check_correctness(st)} \ {END}
      [] OTHER -> {}

\* an edge from explainer back to verifier instead of the one to END
Successors_revisiting(node, st) ==
    CASE node = "parser" -> {check_clarification(st)} \ {END}
      [] node = "router" -> {route_workflow(st)}
      [] node = "python_solver" -> {"verifier"}
      [] node = "rag_solver" -> {"verifier"}
      [] node = "verifier" -> {check_correctness(st)} \ {END}
      [] node = "explainer" -> {"verifier"}
      [] OTHER -> {}

\* build_graph: the nodes that follow node once its update is in st
Successors(node, st) ==
    CASE node = "parser" -> {check_clarification(st)} \ {END}
      [] node = "router" -> {route_workflow(st)}
      [] node = "python_solver" -> {"verifier"}
      [] node = "rag_solver" -> {"verifier"}
      [] node = "verifier" -> {check_correctness(st)} \ {END}
      [] OTHER -> {}

ENTRY_POINT == "parser"

----------------------------------------------------------------------------
(* main.py: one solve request, and the graph run it drives *)

\* main.py initial_state
initial_state(text, mode) ==
    [raw_input |-> text,
     input_type |-> Lower(mode),
     messages |-> <<>>,
     retrieved_docs |-> <<>>,
     code_snippet |-> <<>>,
     code_output |-> <<>>]

None == [none |-> TRUE]

InitGraph ==
    /\ state = EmptyDict
    /\ current_state = EmptyDict
    /\ scheduled = {}
    /\ in_progress = {}
    /\ events = <<>>
    /\ started = <<>>
    /\ applied = <<>>
    /\ run_status = "idle"
    /\ final_result = None
    /\ parser_exc = "none"
    /\ run_error = "none"
    /\ exec_ended = "none"

InitKB ==
    /\ kb_dir \in {"absent", "empty"}
    /\ kb_docs = 0

\* the review box is a text_area whose default is extracted_text: it shows
\* what the user has made of it, and that is what the confirm button sends
ReviewedText_unedited(extracted, edited) == extracted
ReviewedText(extracted, edited) == edited

\* "Confirm & Solve Problem", offered while extracted_text is not empty:
\* run_agent_graph copies initial_state and app.astream(initial_state)
\* enters the graph at its entry point
Solve(mode) ==
    /\ run_status \in {"idle", "done", "failed"}
    /\ extracted_text # ""
    /\ get_openai_key(env_key) # ""
    /\ state' = initial_state(ReviewedText(extracted_text, edited_text), mode)
    /\ current_state' =
           initial_state(ReviewedText(extracted_text, edited_text), mode)
    /\ scheduled' = {ENTRY_POINT}
    /\ in_progress' = {}
    /\ events' = <<>>
    /\ started' = <<>>
    /\ applied' = <<>>
    /\ run_status' = "running"
    /\ parser_exc' = "none"
    /\ run_error' = "none"
    /\ exec_ended' = "none"
    /\ UNCHANGED <<final_result, ui_vars, key_vars, kb_vars, mem_vars, tool_vars>>

\* the graph invokes a node it has selected; the astream generator only
\* advances once the caller has taken the previous event
StartStage(n) ==
    /\ run_status = "running"
    /\ n \in scheduled
    /\ events = <<>>
    /\ scheduled' = scheduled \ {n}
    /\ in_progress' = in_progress \cup {n}
    /\ started' = Append(started, n)
    /\ UNCHANGED <<state, current_state, events, applied, run_status,
                   final_result, parser_exc, run_error, exec_ended,
                   ui_vars, key_vars, kb_vars, mem_vars, tool_vars>>

\* the caller swallows a stage's exception and returns what it has merged
Complete_swallowing(n, outcome) ==
    /\ run_status = "running"
    /\ n \in in_progress
    /\ LET st == IF outcome.raised THEN state ELSE Merge(state, outcome.update)
           aborted == outcome.raised \/ ~(BranchKey(n) \subseteq DOMAIN st)
       IN  IF aborted
           THEN /\ run_error' = IF outcome.raised THEN outcome.cause
                                ELSE "missing_field"
                /\ scheduled' = {}
                /\ in_progress' = {}
                /\ events' = <<>>
                /\ UNCHANGED <<state, run_status>>
           ELSE /\ state' = st
                /\ events' = Append(events, [node |-> n, update |-> outcome.update])
                /\ in_progress' = in_progress \ {n}
                /\ scheduled' = scheduled \cup Successors(n, st)
                /\ UNCHANGED <<run_status, run_error>>
    /\ UNCHANGED <<current_state, started, applied, final_result, ui_vars,
                   key_vars, mem_vars, tool_vars>>

\* node n's coroutine ends with outcome: an exception leaves the graph and
\* asyncio.run, so no result is stored; an update is written to the graph's
\* state, the next nodes are selected and the event is yielded
Complete(n, outcome) ==
    /\ run_status = "running"
    /\ n \in in_progress
    /\ LET st == IF outcome.raised THEN state ELSE Merge(state, outcome.update)
           aborted == outcome.raised \/ ~(BranchKey(n) \subseteq DOMAIN st)
       IN  IF aborted
           THEN /\ run_status' = "failed"
                /\ run_error' = IF outcome.raised THEN outcome.cause
                                ELSE "missing_field"
                /\ scheduled' = {}
                /\ in_progress' = {}
                /\ events' = <<>>
                /\ UNCHANGED state
           ELSE /\ state' = st
                /\ events' = Append(events, [node |-> n, update |-> outcome.update])
                /\ in_progress' = in_progress \ {n}
                /\ scheduled' = scheduled \cup Successors(n, st)
                /\ UNCHANGED <<run_status, run_error>>
    /\ UNCHANGED <<current_state, started, applied, final_result, ui_vars,
                   key_vars, mem_vars, tool_vars>>

ParserFinish ==
    \E res \in ParserCallResults :
        /\ Complete("parser", WithLLM(env_key, parser_agent(state, res)))
        /\ parser_exc' = IF res.ok \/ ~get_llm(env_key).ok THEN "none"
                         ELSE res.reason
        /\ UNCHANGED <<kb_vars, exec_ended>>

RouterFinish ==
    \E res \in CallResults(Categories) :
        /\ Complete("router", WithLLM(env_key, router_agent(state, res)))
        /\ UNCHANGED <<kb_vars, parser_exc, exec_ended>>

PythonSolverFinish ==
    \E res \in CallResults(Contents), final_res \in CallResults(Answers) :
        /\ Complete("python_solver",
                    WithLLM(env_key, python_solver_agent(state, res, final_res)))
        /\ exec_ended' = IF CanReadProblem(state) /\ res.ok /\ get_llm(env_key).ok
                         THEN Exec(StripFences(res.value), <<>>).ended
                         ELSE exec_ended
        /\ UNCHANGED <<kb_vars, parser_exc>>

RagSolverFinish ==
    \E seeding \in Seedings, retrieval_ok \in BOOLEAN, res \in CallResults(Answers) :
        LET store == initialize_vector_store(kb_dir, kb_docs, seeding)
            docs_res == IF retrieval_ok THEN Returned(FormattedDocs(store.docs))
                        ELSE Failed
            out == rag_solver_agent(state, store, docs_res, res)
        IN  /\ Complete("rag_solver",
                        IF out.raised /\ out.cause # "model_call" THEN out
                        ELSE WithLLM(env_key, out))
            /\ kb_dir' = store.dir
            /\ kb_docs' = store.docs
            /\ UNCHANGED <<parser_exc, exec_ended>>

VerifierFinish ==
    \E res \in CallResults(BOOLEAN) :
        /\ Complete("verifier", WithLLM(env_key, verifier_agent(state, res)))
        /\ UNCHANGED <<kb_vars, parser_exc, exec_ended>>

ExplainerFinish ==
    \E res \in CallResults(Explanations) :
        /\ Complete("explainer", WithLLM(env_key, explainer_agent(state, res)))
        /\ UNCHANGED <<kb_vars, parser_exc, exec_ended>>

\* current_state.update(state_update)
StreamMerge_keeping(current, state_update) == current @@ state_update
StreamMerge(current, state_update) == Merge(current, state_update)

\* run_agent_graph's loop body: write the "finished" line, merge the update
Consume ==
    /\ run_status = "running"
    /\ events # <<>>
    /\ current_state' = StreamMerge(current_state, Head(events).update)
    /\ applied' = Append(applied, Head(events).node)
    /\ events' = Tail(events)
    /\ UNCHANGED <<state, scheduled, in_progress, started, run_status,
                   final_result, parser_exc, run_error, exec_ended,
                   ui_vars, key_vars, kb_vars, mem_vars, tool_vars>>

\* the stream is exhausted: run_agent_graph returns current_state and
\* main.py stores it as final_result
ReturnResult ==
    /\ run_status = "running"
    /\ scheduled = {}
    /\ in_progress = {}
    /\ events = <<>>
    /\ run_status' = "done"
    /\ final_result' = current_state
    /\ UNCHANGED <<state, current_state, scheduled, in_progress, events,
                   started, applied, parser_exc, run_error, exec_ended,
                   ui_vars, key_vars, kb_vars, mem_vars, tool_vars>>

----------------------------------------------------------------------------
(* main.py: the input widgets of the followed session *)

InitUI ==
    /\ extracted_text = ""
    /\ edited_text = ""

\* what OCR or transcription can come back with; a transcript can be empty
ExtractedTexts == RawInputs \cup {""}

\* a text_area without a key keeps what the user typed as long as its
\* default value is the same, and starts from the default when it changes
Rendered(text) ==
    IF text = extracted_text THEN edited_text ELSE text

\* extracted_text is set and the script goes on to render the review box;
\* no run is started
SetExtracted(text) ==
    /\ run_status # "running"
    /\ extracted_text' = text
    /\ edited_text' = Rendered(text)
    /\ UNCHANGED <<graph_vars, key_vars, kb_vars, mem_vars, tool_vars>>

\* Text mode: the form's submit button with a non-empty text
SubmitText == \E text \in RawInputs : SetExtracted(text)

\* Image mode: "Extract Text (OCR)" stores what process_image returns,
\* which is never empty (text, banner and text, or an error line)
ExtractImage == \E text \in RawInputs : SetExtracted(text)

\* Audio mode: "Transcribe" needs a key and stores the transcript
Transcribe ==
    /\ get_openai_key(env_key) # ""
    /\ \E text \in ExtractedTexts : SetExtracted(text)

\* the user types in the review box
EditText(text) ==
    /\ run_status # "running"
    /\ extracted_text # ""
    /\ text # edited_text
    /\ edited_text' = text
    /\ UNCHANGED <<extracted_text, graph_vars, key_vars, kb_vars, mem_vars, tool_vars>>

----------------------------------------------------------------------------
(* main.py: the API-key widgets of a session *)

InitKeys ==
    /\ env_key = ""
    /\ user_api_key = [s \in Sessions |-> ""]

\* session 1 runs its script to the end before it handles another widget;
\* the other session's callbacks run whenever its user clicks
SessionFree(s) == s = 1 => run_status # "running"

\* the text input bound to user_api_key
EnterKey(s) ==
    /\ SessionFree(s)
    /\ user_api_key' = [user_api_key EXCEPT ![s] = KeyOf(s)]
    /\ UNCHANGED <<env_key, graph_vars, ui_vars, kb_vars, mem_vars, tool_vars>>

\* apply_api_key: a non-empty key is put into the process environment
ApplyKey(s) ==
    /\ SessionFree(s)
    /\ user_api_key[s] # ""
    /\ env_key' = user_api_key[s]
    /\ UNCHANGED <<user_api_key, graph_vars, ui_vars, kb_vars, mem_vars, tool_vars>>

\* clear_api_key: the session's key and the environment variable are removed
ClearKey(s) ==
    /\ SessionFree(s)
    /\ user_api_key' = [user_api_key EXCEPT ![s] = ""]
    /\ env_key' = ""
    /\ UNCHANGED <<graph_vars, ui_vars, kb_vars, mem_vars, tool_vars>>

----------------------------------------------------------------------------
(* rag.py: save_to_memory, called by concurrent sessions of the process *)

NumCalls == 3
Calls == 1..NumCalls

\* the file at Config.MEMORY_FILE: missing, holding a JSON list, or holding
\* bytes json.load rejects (just truncated by open(.., 'w'), or garbled)
Absent == [kind |-> "absent", entries |-> <<>>]
Invalid == [kind |-> "invalid", entries |-> <<>>]
JsonList(entries) == [kind |-> "list", entries |-> entries]

\* the entry call p builds from its arguments
Entry(p) == [problem |-> p, solution |-> "x^3/3 + C", verified |-> TRUE]
PriorEntry == [problem |-> 0, solution |-> "2", verified |-> TRUE]

\* lines 136-142: data = [] unless the file exists and json.load accepts it
LoadMemory(file) == IF file.kind = "list" THEN file.entries ELSE <<>>

\* json.dump(data, f) on a handle opened with 'w' at offset 0: the bytes
\* replace the head of whatever another handle wrote since the truncation,
\* and the tail of a longer text stays behind it
DumpMemory(file, data) ==
    IF file.kind = "list" /\ Len(file.entries) > Len(data)
    THEN Invalid
    ELSE JsonList(data)

InitMemoryIdle ==
    /\ mem_file = Absent
    /\ mem_log = <<>>
    /\ mem_pc = [p \in Calls |-> "idle"]
    /\ mem_data = [p \in Calls |-> <<>>]

\* every call has been issued; the file is as earlier calls left it
InitMemoryCalls ==
    /\ mem_file \in {Absent, JsonList(<<>>), JsonList(<<PriorEntry>>)}
    /\ mem_log = mem_file.entries
    /\ mem_pc = [p \in Calls |-> "read"]
    /\ mem_data = [p \in Calls |-> <<>>]

\* lines 130-144: build the entry, load the file, append
MemRead(p) ==
    /\ mem_pc[p] = "read"
    /\ mem_data' = [mem_data EXCEPT ![p] = Append(LoadMemory(mem_file), Entry(p))]
    /\ mem_pc' = [mem_pc EXCEPT ![p] = "open"]
    /\ UNCHANGED <<mem_file, mem_log, graph_vars, ui_vars, key_vars, kb_vars, tool_vars>>

\* lines 147-149: makedirs, open(MEMORY_FILE, 'w') truncates the file
MemOpen(p) ==
    /\ mem_pc[p] = "open"
    /\ mem_file' = Invalid
    /\ mem_pc' = [mem_pc EXCEPT ![p] = "dump"]
    /\ UNCHANGED <<mem_log, mem_data, graph_vars, ui_vars, key_vars, kb_vars, tool_vars>>

\* line 150: json.dump and close
MemDump(p) ==
    /\ mem_pc[p] = "dump"
    /\ mem_file' = DumpMemory(mem_file, mem_data[p])
    /\ mem_log' = IF mem_file'.kind = "list" THEN mem_file'.entries ELSE mem_log
    /\ mem_pc' = [mem_pc EXCEPT ![p] = "done"]
    /\ UNCHANGED <<mem_data, graph_vars, ui_vars, key_vars, kb_vars, tool_vars>>

----------------------------------------------------------------------------
(* main.py: the result display of the followed session *)

\* bound: saves one session makes
MaxSaved == 2

\* save_to_memory's entry
SavedEntry(problem, solution, verification_status) ==
    [problem |-> problem, solution |-> solution, verified |-> verification_status]

\* res.get("parsed_problem", {}).get("needs_clarification")
AsksClarification(res) ==
    HasKey(res, "parsed_problem") /\ GetFlag(res["parsed_problem"], "needs_clarification")

\* res.get("is_correct") is False
IsBlocked(res) == HasKey(res, "is_correct") /\ res["is_correct"] = FALSE

\* the display without the verifier's branch
Display_unblocked(res) ==
    IF res = None \/ res = EmptyDict THEN {}
    ELSE IF AsksClarification(res) THEN {"ambiguous", "clear"}
    ELSE {"solution", "logic", "helpful", "incorrect", "clear"}

\* what the script renders for final_result: nothing, the ambiguity error,
\* the verifier's block with its critique, or the solution with the two
\* feedback buttons; "Clear Response" comes with each
Display(res) ==
    IF res = None \/ res = EmptyDict THEN {}
    ELSE IF AsksClarification(res) THEN {"ambiguous", "clear"}
    ELSE IF IsBlocked(res) THEN {"blocked", "critique", "clear"}
    ELSE {"solution", "logic", "helpful", "incorrect", "clear"}

\* "Helpful": save_to_memory(problem_text, final_answer, True) reads the
\* file, appends the entry and rewrites the file; a missing field raises
\* before anything is saved
Helpful ==
    /\ run_status # "running"
    /\ "helpful" \in Display(final_result)
    /\ CanReadProblem(final_result) /\ HasKey(final_result, "final_answer")
    /\ Len(LoadMemory(mem_file)) < MaxSaved
    /\ LET entry == SavedEntry(final_result["parsed_problem"]["problem_text"],
                               final_result["final_answer"], TRUE)
           data == Append(LoadMemory(mem_file), entry)
       IN  /\ mem_file' = DumpMemory(Invalid, data)
           /\ mem_log' = data
    /\ UNCHANGED <<mem_pc, mem_data, graph_vars, ui_vars, key_vars, kb_vars,
                   tool_vars>>

\* "Clear Response"
ClearResponse ==
    /\ run_status # "running"
    /\ "clear" \in Display(final_result)
    /\ final_result' = None
    /\ UNCHANGED <<state, current_state, scheduled, in_progress, events,
                   started, applied, run_status, parser_exc, run_error,
                   exec_ended, ui_vars, key_vars, kb_vars, mem_vars, tool_vars>>

----------------------------------------------------------------------------
(* processors.py: _run_ocr_sync *)

\* bound: detected regions per image
MaxRegions == 3

\* confidences are in hundredths: 50 stands for 0.50
ConfLevels == {0, 49, 50, 51, 100}
OcrTexts == {"2x + 3 = 7"}
SeqsUpTo(S, n) == UNION {[1..k -> S] : k \in 0..n}

\* reader.readtext(image, detail=1): (box, text, conf) per region; an image
\* that cannot be opened makes Image.open raise
OcrResults == SeqsUpTo([text : OcrTexts, conf : ConfLevels], MaxRegions)
OcrInputs == {[readable |-> FALSE]}
                 \cup {[readable |-> TRUE, results |-> r] : r \in OcrResults}

RECURSIVE Sum(_)
Sum(seq) == IF seq = <<>> THEN 0 ELSE Head(seq) + Sum(Tail(seq))

\* sum(confidences) / len(confidences), kept as a fraction; 0.0 if empty
avg_conf(confidences) ==
    IF confidences # <<>> THEN [num |-> Sum(confidences), den |-> Len(confidences)]
    ELSE [num |-> 0, den |-> 1]

CONFIDENCE_THRESHOLD == 50

\* avg < threshold on fractions
Below_inclusive(avg, threshold) == avg.num <= threshold * avg.den
Below(avg, threshold) == avg.num < threshold * avg.den

WARNING_MSG == "[SYSTEM WARNING: Low OCR Confidence]"
OCR_ERROR == "Error during OCR processing"

\* the returned text as its lines: the banner, then one line per region
run_ocr_sync(image) ==
    IF ~image.readable THEN <<OCR_ERROR>>
    ELSE LET extracted_lines == [i \in DOMAIN image.results |-> image.results[i].text]
             confidences == [i \in DOMAIN image.results |-> image.results[i].conf]
         IN  IF Below(avg_conf(confidences), CONFIDENCE_THRESHOLD)
             THEN <<WARNING_MSG>> \o extracted_lines
             ELSE extracted_lines

\* the call's result: nothing yet, or the text it returned
Pending == [returned |-> FALSE, text |-> <<>>]
ReturnedText(lines) == [returned |-> TRUE, text |-> lines]

InitOcrIdle ==
    /\ ocr_in = [readable |-> FALSE]
    /\ ocr_out = Pending

InitOcr ==
    /\ ocr_in \in OcrInputs
    /\ ocr_out = Pending

RunOcr ==
    /\ ~ocr_out.returned
    /\ ocr_out' = ReturnedText(run_ocr_sync(ocr_in))
    /\ UNCHANGED <<ocr_in, ing_vars, graph_vars, ui_vars, key_vars, kb_vars,
                   mem_vars>>

----------------------------------------------------------------------------
(* rag.py: process_and_index_files *)

\* bound: chunks the splitter makes of the uploaded files
MaxChunks == 11

\* Config.RAG_BATCH_SIZE and the values the tunable is given here
RAG_BATCH_SIZE == 5
BatchSizes == 1..RAG_BATCH_SIZE

\* seq[i:j] of Python, i and j counted from 0
Slice(seq, i, j) == SubSeq(seq, i + 1, Min(j, Len(seq)))

\* chunked_docs[i : i + batch_size]
Batch_unbounded(chunks, i, b) == Slice(chunks, i, Len(chunks))
Batch(chunks, i, b) == Slice(chunks, i, i + b)

\* "Index Documents" up to the batch loop: nothing to do if no document was
\* loaded, else split and open the store (which seeds it if need be)
IndexDocuments(n, loaded, seeding) ==
    /\ ing_pc = "idle"
    /\ get_openai_key(env_key) # ""
    /\ IF ~loaded
       THEN /\ n = 0
            /\ ing_pc' = "nothing"
            /\ UNCHANGED <<ing_chunks, kb_vars>>
       ELSE LET store == initialize_vector_store(kb_dir, kb_docs, seeding)
            IN  /\ ing_chunks' = [k \in 1..n |-> k]
                /\ kb_dir' = store.dir
                /\ kb_docs' = store.docs
                /\ ing_pc' = IF store.raised THEN "error" ELSE "loop"
    /\ UNCHANGED <<ing_b, ing_i, ing_upserts, ocr_vars, graph_vars, ui_vars,
                   key_vars, mem_vars>>

\* one turn of `for i in range(0, total_chunks, batch_size)`: the batch is
\* taken by add_documents, or the call raises and ends the ingestion
AddDocuments(ok) ==
    /\ ing_pc = "loop"
    /\ ing_i < Len(ing_chunks)
    /\ IF ok
       THEN LET batch == Batch(ing_chunks, ing_i, ing_b)
            IN  /\ ing_upserts' = Append(ing_upserts, batch)
                /\ kb_docs' = kb_docs + Len(batch)
                /\ ing_i' = ing_i + ing_b
                /\ UNCHANGED ing_pc
       ELSE /\ ing_pc' = "error"
            /\ UNCHANGED <<ing_upserts, kb_docs, ing_i>>
    /\ UNCHANGED <<ing_b, ing_chunks, kb_dir, ocr_vars, graph_vars, ui_vars,
                   key_vars, mem_vars>>

\* the range is exhausted: the success message is returned
IngestReturn ==
    /\ ing_pc = "loop"
    /\ ing_i >= Len(ing_chunks)
    /\ ing_pc' = "done"
    /\ UNCHANGED <<ing_b, ing_chunks, ing_i, ing_upserts, ocr_vars, graph_vars,
                   ui_vars, key_vars, kb_vars, mem_vars>>

InitIngest ==
    /\ ing_b \in BatchSizes
    /\ ing_chunks = <<>>
    /\ ing_i = 0
    /\ ing_upserts = <<>>
    /\ ing_pc = "idle"

InitIngestIdle ==
    /\ ing_b = RAG_BATCH_SIZE
    /\ ing_chunks = <<>>
    /\ ing_i = 0
    /\ ing_upserts = <<>>
    /\ ing_pc = "idle"

----------------------------------------------------------------------------
(* Specifications *)

Init ==
    /\ InitGraph /\ InitUI /\ InitKeys /\ InitKB /\ InitMemoryIdle
    /\ InitOcrIdle /\ InitIngestIdle

Next ==
    \/ SubmitText
    \/ ExtractImage
    \/ Transcribe
    \/ \E text \in ReviewTexts : EditText(text)
    \/ \E mode \in InputModes : Solve(mode)
    \/ \E n \in Nodes : StartStage(n)
    \/ ParserFinish
    \/ RouterFinish
    \/ PythonSolverFinish
    \/ RagSolverFinish
    \/ VerifierFinish
    \/ ExplainerFinish
    \/ Consume
    \/ ReturnResult
    \/ EnterKey(1)
    \/ ApplyKey(1)
    \/ ClearKey(1)

Spec == Init /\ [][Next]_vars

\* a step of the run in progress: the event loop drives the graph and the
\* caller's async for, and a stage's awaited call comes back
RunStep ==
    \/ \E n \in Nodes : StartStage(n)
    \/ ParserFinish
    \/ RouterFinish
    \/ PythonSolverFinish
    \/ RagSolverFinish
    \/ VerifierFinish
    \/ ExplainerFinish
    \/ Consume
    \/ ReturnResult

\* the same program where a run that can take a step does not stall
FairSpec == Spec /\ WF_vars(RunStep)

\* the same session next to a second one using its own key widgets
NextSessions ==
    \/ Next
    \/ EnterKey(2)
    \/ ApplyKey(2)
    \/ ClearKey(2)

SpecSessions == Init /\ [][NextSessions]_vars

\* the session with its result display: the feedback and clear buttons
NextFeedback ==
    \/ Next
    \/ Helpful
    \/ ClearResponse

SpecFeedback == Init /\ [][NextFeedback]_vars

\* N sessions call save_to_memory at once; no graph run is in progress
InitMemory ==
    /\ InitGraph /\ InitUI /\ InitKeys /\ kb_dir = "absent" /\ kb_docs = 0
    /\ InitMemoryCalls /\ InitOcrIdle /\ InitIngestIdle

NextMemory ==
    \/ \E p \in Calls : MemRead(p)
    \/ \E p \in Calls : MemOpen(p)
    \/ \E p \in Calls : MemDump(p)

SpecMemory == InitMemory /\ [][NextMemory]_vars

\* one image through the OCR function
InitOcrSpec ==
    /\ InitGraph /\ InitUI /\ InitKeys /\ kb_dir = "absent" /\ kb_docs = 0
    /\ InitMemoryIdle /\ InitIngestIdle /\ InitOcr

NextOcr == RunOcr

SpecOcr == InitOcrSpec /\ [][NextOcr]_vars

\* one ingestion by a session that has applied its key
InitIngestSpec ==
    /\ InitGraph /\ InitUI /\ InitKB /\ InitMemoryIdle /\ InitOcrIdle
    /\ env_key = KeyOf(1)
    /\ user_api_key = [s \in Sessions |-> IF s = 1 THEN KeyOf(1) ELSE ""]
    /\ InitIngest

NextIngest ==
    \/ \E n \in 0..MaxChunks, loaded \in BOOLEAN, seeding \in Seedings :
          IndexDocuments(n, loaded, seeding)
    \/ \E ok \in BOOLEAN : AddDocuments(ok)
    \/ IngestReturn

SpecIngest == InitIngestSpec /\ [][NextIngest]_vars

----------------------------------------------------------------------------
(* Helpers for the properties *)

Range(seq) == {seq[i] : i \in DOMAIN seq}

IsPrefix(a, b) == Len(a) <= Len(b) /\ SubSeq(b, 1, Len(a)) = a

Count(seq, set) == Len(SelectSeq(seq, LAMBDA x : x \in set))

\* the run whose record is in state has got a parse result
ParserCompleted == HasKey(state, "parsed_problem")
RouterCompleted == HasKey(state, "problem_category")
SolverCompleted == HasKey(state, "final_answer")
VerifierCompleted == HasKey(state, "is_correct")

NeedsClarification ==
    ParserCompleted /\ GetFlag(state["parsed_problem"], "needs_clarification")

\* every record of the run a caller can look at
RunRecords ==
    {state, current_state} \cup (IF run_status = "done" THEN {final_result} ELSE {})

----------------------------------------------------------------------------
(* C1 *)

\* C1: once the parser has produced needs_clarification = true (from the
\* model or from its fallback) the graph is at END: parser is the only
\* stage that ever ran, nothing is selected or running, and
\* problem_category, final_answer, is_correct and explanation are in no
\* record of the run, the final one included.
C1_ClarificationEndsRun ==
    NeedsClarification =>
        /\ started = <<"parser">>
        /\ scheduled = {}
        /\ in_progress = {}
        /\ \A r \in RunRecords :
              DOMAIN r \cap {"problem_category", "final_answer",
                             "is_correct", "explanation"} = {}

\* a finished run whose parser returned a full parse flagged ambiguous
C1_Witness ==
    /\ run_status = "done"
    /\ NeedsClarification
    /\ HasKey(state["parsed_problem"], "problem_text")
    /\ final_result = current_state
    /\ applied = <<"parser">>

----------------------------------------------------------------------------
(* C2 *)

\* C2: from the moment the verifier has written is_correct = false, on
\* either solver path, explainer is neither selected nor started and no
\* record of the run has an explanation.
C2_FailedVerificationSkipsExplainer ==
    (VerifierCompleted /\ ~state["is_correct"]) =>
        /\ "explainer" \notin Range(started) \cup scheduled \cup in_progress
        /\ \A r \in RunRecords : ~HasKey(r, "explanation")

\* a finished run on the retrieval path that the verifier rejected
C2_Witness ==
    /\ run_status = "done"
    /\ VerifierCompleted /\ ~state["is_correct"]
    /\ "rag_solver" \in Range(started)
    /\ HasKey(final_result, "is_correct") /\ ~final_result["is_correct"]

----------------------------------------------------------------------------
(* C3 *)

\* the solvers the run has selected or invoked so far
SolversChosen == (scheduled \cup Range(started)) \cap Solvers

\* C3: once router has completed, problem_category is calculation or
\* conceptual and the run has exactly one solver, selected and then invoked
\* once: python_solver if and only if the category is calculation,
\* rag_solver otherwise.  Before router completes no solver is chosen.
C3_RoutingExhaustiveExclusive ==
    /\ Count(started, Solvers) <= 1
    /\ ~RouterCompleted => SolversChosen = {}
    /\ RouterCompleted =>
          /\ state["problem_category"] \in Categories
          /\ Cardinality(SolversChosen) = 1
          /\ ("python_solver" \in SolversChosen)
                <=> (state["problem_category"] = "calculation")
          /\ ("rag_solver" \in SolversChosen)
                <=> (state["problem_category"] # "calculation")

\* a finished conceptual run: rag_solver ran, python_solver did not
C3_Witness ==
    /\ run_status = "done"
    /\ RouterCompleted /\ state["problem_category"] = "conceptual"
    /\ "rag_solver" \in Range(started)
    /\ "python_solver" \notin Range(started)

----------------------------------------------------------------------------
(* C4 *)

Populated(r, k) == r[k] # <<>>

PythonFieldsPopulated(r) == Populated(r, "code_snippet") \/ Populated(r, "code_output")
RagFieldsPopulated(r) == Populated(r, "retrieved_docs")

\* C4 as stated: after a solver has completed, calculation implies
\* code_snippet and code_output populated and retrieved_docs empty,
\* conceptual implies retrieved_docs populated and code_snippet and
\* code_output empty, and the two paths' fields are never populated together.
C4_AsStated ==
    SolverCompleted =>
        /\ state["problem_category"] = "calculation" =>
              /\ Populated(state, "code_snippet")
              /\ Populated(state, "code_output")
              /\ ~Populated(state, "retrieved_docs")
        /\ state["problem_category"] = "conceptual" =>
              /\ Populated(state, "retrieved_docs")
              /\ ~Populated(state, "code_snippet")
              /\ ~Populated(state, "code_output")
        /\ ~(PythonFieldsPopulated(state) /\ RagFieldsPopulated(state))

\* C4 (amended): after a solver has completed, calculation implies that
\* retrieved_docs is empty and that code_output is exactly what executing
\* code_snippet gives (its printed lines or its error text), either of
\* which may be empty; conceptual implies that code_snippet and code_output
\* are empty and that retrieved_docs holds the at most RetrieverK chunks
\* retrieved, possibly none.  The two paths' fields are never populated
\* together, in any record of the run.
C4_PathFieldsExclusive ==
    SolverCompleted =>
        /\ state["problem_category"] = "calculation" =>
              /\ ~Populated(state, "retrieved_docs")
              /\ Returned(state["code_output"])
                    = execute_python_math(state["code_snippet"])
              /\ \A line \in Range(state["code_snippet"]) : ~IsFence(line)
        /\ state["problem_category"] = "conceptual" =>
              /\ ~Populated(state, "code_snippet")
              /\ ~Populated(state, "code_output")
              /\ Len(state["retrieved_docs"]) <= RetrieverK
        /\ \A r \in RunRecords : ~(PythonFieldsPopulated(r) /\ RagFieldsPopulated(r))

\* a calculation run whose generated code printed nothing
C4_Witness ==
    /\ SolverCompleted
    /\ state["problem_category"] = "calculation"
    /\ Populated(state, "code_snippet")
    /\ ~Populated(state, "code_output")
    /\ "python_solver" \in Range(applied)

----------------------------------------------------------------------------
(* C5 *)

AllCallsDone == \A p \in Calls : mem_pc[p] = "done"

\* the entries of the file that the calls of this round appended
NewEntries(file) == SelectSeq(file.entries, LAMBDA e : e.problem \in Calls)

\* C5: when N concurrent save_to_memory calls have all returned, the file
\* is a JSON list holding exactly N new entries, the entry of each call
\* exactly once.
C5_NoEntryLostOrDuplicated ==
    AllCallsDone =>
        /\ mem_file.kind = "list"
        /\ Len(NewEntries(mem_file)) = NumCalls
        /\ \A p \in Calls : Count(mem_file.entries, {Entry(p)}) = 1

----------------------------------------------------------------------------
(* C6 *)

\* C6: every save_to_memory call leaves the file holding the list that was
\* last written before it, unchanged and in order, followed by the call's
\* own entry.
C6_LogAppendOnly ==
    [][\A p \in Calls :
          (mem_pc[p] = "dump" /\ mem_pc'[p] = "done") =>
              /\ mem_file'.kind = "list"
              /\ mem_file'.entries = Append(mem_log, Entry(p))]_vars

----------------------------------------------------------------------------
(* C7 *)

\* C7: during a run the trace only grows: across every step the messages
\* of the graph's state, and of the state the caller accumulates, are a
\* prefix of the messages after the step.
C7_TraceAppendOnly ==
    [][run_status = "running" =>
          /\ IsPrefix(state["messages"], state'["messages"])
          /\ IsPrefix(current_state["messages"], current_state'["messages"])]_vars

----------------------------------------------------------------------------
(* C8 *)

\* the fields each stage owns
Owned(n) == CASE n = "parser" -> {"parsed_problem"}
              [] n = "router" -> {"problem_category"}
              [] n = "python_solver" -> {"code_snippet", "code_output", "final_answer"}
              [] n = "rag_solver" -> {"retrieved_docs", "final_answer"}
              [] n = "verifier" -> {"is_correct"}
              [] n = "explainer" -> {"explanation"}

\* every key outside owned is in both records with the same value
FrameKept(before, after, owned) ==
    \A k \in (DOMAIN before \cup DOMAIN after) \ owned :
        /\ k \in DOMAIN before
        /\ k \in DOMAIN after
        /\ before[k] = after[k]

\* C8: the step in which stage n ends leaves every field of the graph's
\* state other than the fields n owns and the trace as it was, and the step
\* in which the caller merges n's update does the same to the caller's
\* state.
C8_StagesTouchOnlyOwnFields ==
    [][run_status = "running" =>
          /\ \A n \in in_progress :
                FrameKept(state, state', Owned(n) \cup {"messages"})
          /\ events # <<>> =>
                FrameKept(current_state, current_state',
                          Owned(Head(events).node) \cup {"messages"})]_vars

\* explainer's update has been merged and the caller's state still holds
\* what the run began with and what the earlier stages wrote
C8_Witness ==
    /\ "explainer" \in Range(applied)
    /\ HasKey(current_state, "explanation")
    /\ current_state["raw_input"] \in ReviewTexts
    /\ current_state["parsed_problem"] \in ParsedProblems
    /\ current_state["is_correct"]
    /\ state = current_state

----------------------------------------------------------------------------
(* C9 *)

\* C9: no stage is invoked more than once in a run, and once the verifier
\* has written is_correct = false nothing is selected or running, so the
\* run can only return.
C9_FailedVerificationTerminal ==
    /\ \A n \in Nodes : Count(started, {n}) <= 1
    /\ (VerifierCompleted /\ ~state["is_correct"]) =>
          /\ scheduled = {}
          /\ in_progress = {}
          /\ started[Len(started)] = "verifier"

\* a rejected calculation run that has returned after four stages
C9_Witness ==
    /\ run_status = "done"
    /\ started = <<"parser", "router", "python_solver", "verifier">>
    /\ ~final_result["is_correct"]

----------------------------------------------------------------------------
(* C10 *)

Rank(n) == CASE n = "parser" -> 1
             [] n = "router" -> 2
             [] n \in Solvers -> 3
             [] n = "verifier" -> 4
             [] n = "explainer" -> 5

\* C10: the stages of a run are invoked in the order parser, router, one
\* solver, verifier, explainer with none skipped; at most one is in
\* progress and then nothing else is selected; the caller has merged the
\* updates in that same order, and a stage is invoked only when the update
\* of the stage before it is in both the graph's and the caller's state
\* (a stage that raised ends the run and has no update).
C10_StrictStageOrder ==
    /\ \A i \in DOMAIN started : Rank(started[i]) = i
    /\ Cardinality(in_progress) <= 1
    /\ Cardinality(scheduled \cup in_progress) <= 1
    /\ IsPrefix(applied, started)
    /\ Len(started) = Len(applied) + Len(events) + Cardinality(in_progress)
                        + (IF run_status = "failed" THEN 1 ELSE 0)
    /\ Len(events) <= 1
    /\ in_progress # {} =>
          /\ events = <<>>
          /\ in_progress = {started[Len(started)]}
          /\ applied = SubSeq(started, 1, Len(started) - 1)
          /\ \A i \in 1..(Len(started) - 1) :
                Owned(started[i]) \subseteq DOMAIN state \cap DOMAIN current_state

\* a complete retrieval run: five stages, merged in the order they ran
C10_Witness ==
    /\ run_status = "done"
    /\ started = <<"parser", "router", "rag_solver", "verifier", "explainer">>
    /\ applied = started

----------------------------------------------------------------------------
(* C11 *)

\* what the parser writes to the trace when its call fails with reason
ParserFailureTrace(reason) ==
    parser_agent(EmptyDict, FailedWith(reason)).update["messages"]

\* C11: when the parser's model call has failed, for either reason, the
\* stage has not raised (the run has not failed), parsed_problem has
\* needs_clarification = true, the run is at END with parser the only stage
\* run, and the trace states the reason of the failure: it is the trace of
\* that reason and of no other.
C11_ParserFailureHandled ==
    parser_exc # "none" =>
        /\ run_status # "failed"
        /\ NeedsClarification
        /\ started = <<"parser">>
        /\ scheduled = {} /\ in_progress = {}
        /\ state["messages"] = ParserFailureTrace(parser_exc)
        /\ \A r \in FailureReasons \ {parser_exc} :
              state["messages"] # ParserFailureTrace(r)

----------------------------------------------------------------------------
(* C12 *)

ExecutionFailed == exec_ended \in {"exception", "base_exception"}

IsErrorText(out) == Len(out) = 1 /\ out[1] = "Error: division by zero"

\* C12: when the generated code has failed, whatever it raised, the
\* failure has not left python_solver: the run did not end on it, and unless
\* the answer-formatting call itself failed, code_output holds the error
\* text, final_answer is set and the run has gone on to verifier.
C12_ExecutionFailureContained ==
    ExecutionFailed =>
        /\ run_error # "code_execution"
        /\ run_error = "none" =>
              /\ IsErrorText(state["code_output"])
              /\ HasKey(state, "final_answer")
              /\ "verifier" \in scheduled \cup Range(started)

----------------------------------------------------------------------------
(* C13 *)

\* the router's model call raised and the exception left the stage
RouterCallFailed ==
    /\ run_error = "model_call"
    /\ started # <<>> /\ started[Len(started)] = "router"

\* C13: when the router's model call has failed the run has failed: no
\* record of the run has a problem_category, parser and router are the only
\* stages that ran and nothing is selected or running, and the result the
\* session stores is not a record of this run.
C13_RouterFailureFatal ==
    RouterCallFailed =>
        /\ run_status = "failed"
        /\ ~HasKey(state, "problem_category")
        /\ ~HasKey(current_state, "problem_category")
        /\ started = <<"parser", "router">>
        /\ scheduled = {} /\ in_progress = {}
        /\ final_result \notin {state, current_state}

\* the router failed in a run that followed a completed one, whose result
\* is still the one stored
C13_Witness ==
    /\ RouterCallFailed
    /\ run_status = "failed"
    /\ final_result # None
    /\ HasKey(final_result, "explanation")

----------------------------------------------------------------------------
(* C14 *)

\* C14: while the followed session's run is in progress (that session
\* itself handles no widget then) no step changes the credential its
\* stages read, and no run ends for want of a credential: what the other
\* session does with its key changes neither the run's inputs nor its
\* outcome.
C14_RunsIsolated ==
    /\ [](run_error # "credential")
    /\ [][run_status = "running" => env_key' = env_key]_vars

----------------------------------------------------------------------------
(* C15 *)

\* a step that takes the graph from not running to running
RunStarts == run_status # "running" /\ run_status' = "running"

\* C15: a run starts only by the confirm button, which is there only while
\* a text is under review, and its raw_input is the content of the review
\* box at that click; a step that sets the text under review (text submit,
\* OCR, transcription) or edits it leaves the graph where it was.
C15_RunsOnlyOnConfirmedInput ==
    [][/\ RunStarts =>
            /\ extracted_text # ""
            /\ state'["raw_input"] = edited_text
            /\ current_state' = state'
            /\ UNCHANGED ui_vars
       /\ ui_vars' # ui_vars => UNCHANGED graph_vars]_vars

\* a run in progress on a text the user changed in the review box
C15_Witness ==
    /\ run_status = "running"
    /\ started # <<>>
    /\ state["raw_input"] = edited_text
    /\ state["raw_input"] # extracted_text

----------------------------------------------------------------------------
(* C16 *)

\* the regions handed back for the image and their confidences
Regions == ocr_in.results
Confs == [i \in DOMAIN Regions |-> Regions[i].conf]

\* the mean of the confidences is under one half; no region counts as 0
MeanUnderHalf ==
    \/ Regions = <<>>
    \/ 2 * Sum(Confs) < 100 * Len(Confs)

HasBanner(out) == out # <<>> /\ out[1] = WARNING_MSG

\* C16: for an image the OCR engine could read, the returned text starts
\* with the warning banner if and only if the mean region confidence is
\* below 0.5 (no region: mean 0); after the banner, or from the start
\* without one, come the region texts.
C16_BannerIffLowConfidence ==
    (ocr_out.returned /\ ocr_in.readable) =>
        /\ HasBanner(ocr_out.text) <=> MeanUnderHalf
        /\ Len(ocr_out.text) = Len(Regions) + (IF MeanUnderHalf THEN 1 ELSE 0)
        /\ \A i \in DOMAIN Regions :
              ocr_out.text[Len(ocr_out.text) - Len(Regions) + i] = Regions[i].text

\* regions of unequal confidence whose mean is exactly 0.5: no banner
C16_Witness ==
    /\ ocr_out.returned /\ ocr_in.readable
    /\ Len(Regions) >= 2
    /\ \E i, j \in DOMAIN Regions : Regions[i].conf < Regions[j].conf
    /\ 2 * Sum(Confs) = 100 * Len(Confs)
    /\ ~HasBanner(ocr_out.text)

----------------------------------------------------------------------------
(* C17 *)

\* rag_solver of the run in state got its documents back from the store
QueryServed ==
    /\ "rag_solver" \in Range(started) \ in_progress
    /\ run_error \notin {"missing_field", "store", "retrieval"}

\* C17: a store found absent or empty is seeded before use and one that
\* holds documents is reused as it is, so the index holds exactly the
\* curated entries or, before first use, nothing; and whenever a query has
\* been served the index was not empty.
C17_StoreSeededBeforeUse ==
    /\ kb_docs \in {0, NSeeds}
    /\ QueryServed => kb_docs > 0

----------------------------------------------------------------------------
(* C18 *)

RECURSIVE Flatten(_)
Flatten(seqs) == IF seqs = <<>> THEN <<>> ELSE Head(seqs) \o Flatten(Tail(seqs))

Ceil(n, b) == (n + b - 1) \div b

\* C18: the batches taken so far, put end to end, are the first chunks of
\* the list in order; none is empty or longer than the batch size and all
\* but the last have exactly that size; when the ingestion returns, they
\* are the whole chunk list and there are ceil(n/b) of them.
C18_FixedSizeBatches ==
    /\ IsPrefix(Flatten(ing_upserts), ing_chunks)
    /\ \A k \in DOMAIN ing_upserts :
          /\ Len(ing_upserts[k]) \in 1..ing_b
          /\ k < Len(ing_upserts) => Len(ing_upserts[k]) = ing_b
    /\ ing_pc = "done" =>
          /\ Flatten(ing_upserts) = ing_chunks
          /\ Len(ing_upserts) = Ceil(Len(ing_chunks), ing_b)

\* a finished ingestion at the default batch size whose last batch is short
C18_Witness ==
    /\ ing_pc = "done"
    /\ ing_b = RAG_BATCH_SIZE
    /\ Len(ing_upserts) >= 3
    /\ Len(ing_upserts[Len(ing_upserts)]) < ing_b
    /\ kb_docs = NSeeds + Len(ing_chunks)

----------------------------------------------------------------------------
(* C19 *)

\* C19: state is the record the graph itself keeps and would hand back from
\* a synchronous run; current_state is what run_agent_graph has merged from
\* the stream.  Whenever every yielded event has been consumed the two are
\* equal, and at exhaustion the stored result is the graph's final state.
C19_StreamEqualsSynchronousRun ==
    /\ (run_status = "running" /\ events = <<>>) => current_state = state
    /\ run_status = "done" =>
          /\ applied = started
          /\ current_state = state
          /\ final_result = state

\* a run through all five stages, consumed to the end
C19_Witness ==
    /\ run_status = "done"
    /\ Len(applied) = 5
    /\ final_result = state
    /\ HasKey(final_result, "explanation")
    /\ final_result["messages"] # initial_state("", "Text")["messages"]

----------------------------------------------------------------------------
(* C20 *)

\* the run is over and the graph got to END
AtEnd == run_status = "done"

\* the stage whose update took the graph to END
LastStage == started[Len(started)]

\* C20: a run invokes at most five stages; it gets to END only after
\* parser with needs_clarification true, after verifier with is_correct
\* false, or after explainer; and a run in progress always comes to END
\* unless a stage's call raised.
C20_RunsReachEnd ==
    /\ [](Len(started) <= 5)
    /\ [](AtEnd =>
            /\ started # <<>>
            /\ \/ LastStage = "parser" /\ NeedsClarification
               \/ LastStage = "verifier" /\ ~state["is_correct"]
               \/ LastStage = "explainer")
    /\ (run_status = "running") ~> (AtEnd \/ run_error # "none")

\* END reached after five stages, none of which raised
C20_Witness ==
    /\ AtEnd
    /\ run_error = "none"
    /\ Len(started) = 5
    /\ LastStage = "explainer"

----------------------------------------------------------------------------
(* C21 *)

\* the stored result is one the graph ended without a verified answer
ResultNotVerified ==
    \/ /\ HasKey(final_result, "parsed_problem")
       /\ GetFlag(final_result["parsed_problem"], "needs_clarification")
    \/ /\ HasKey(final_result, "is_correct")
       /\ ~final_result["is_correct"]

\* the stored result comes from a run that reached explainer on a verified
\* answer
ResultVerified ==
    /\ HasKey(final_result, "explanation")
    /\ HasKey(final_result, "is_correct") /\ final_result["is_correct"]
    /\ ~ResultNotVerified

SuccessWidgets == {"solution", "logic", "helpful", "incorrect"}
BlockingWidgets == {"ambiguous", "blocked"}

\* C21: for a stored result with needs_clarification true or is_correct
\* false the display holds a blocking message and neither the solution nor
\* the save button; the save button is offered only on a result that
\* reached explainer with is_correct true; the memory file changes only by
\* a step that, outside a run and on such a result, appends one entry built
\* from that result with verified = true; so every entry is verified.
C21_NoSilentSuccess ==
    /\ [](final_result # None =>
            /\ ResultNotVerified =>
                  /\ Display(final_result) \cap SuccessWidgets = {}
                  /\ Display(final_result) \cap BlockingWidgets # {}
            /\ "helpful" \in Display(final_result) => ResultVerified)
    /\ [](\A i \in DOMAIN mem_file.entries : mem_file.entries[i].verified)
    /\ [][mem_file' # mem_file =>
            /\ run_status # "running"
            /\ final_result # None /\ ResultVerified
            /\ mem_file' = JsonList(Append(LoadMemory(mem_file),
                   SavedEntry(final_result["parsed_problem"]["problem_text"],
                              final_result["final_answer"], TRUE)))
            /\ UNCHANGED <<graph_vars, ui_vars>>]_vars

\* an answer was saved, and the result now stored is one the verifier
\* blocked: its critique is shown and no save is offered
C21_Witness ==
    /\ mem_file.kind = "list" /\ Len(mem_file.entries) >= 1
    /\ final_result # None
    /\ "blocked" \in Display(final_result)
    /\ "helpful" \notin Display(final_result)

----------------------------------------------------------------------------
(* C22 *)

\* what stage n subscripts in the state it is given
FieldsReady(n, st) ==
    CASE n = "parser" -> HasKey(st, "raw_input")
      [] n = "router" -> CanReadProblem(st)
      [] n \in Solvers -> CanReadProblem(st)
      [] n = "verifier" -> CanReadProblem(st) /\ HasKey(st, "final_answer")
      [] n = "explainer" ->
            /\ CanReadProblem(st) /\ HasKey(st, "final_answer")
            /\ HasKey(st, "is_correct") /\ st["is_correct"]

\* a step in which the graph invokes a stage
Invokes(n) == started' = Append(started, n)

\* C22: no run ends on a read of a missing field; a stage is invoked only
\* on a state that holds every field it reads (explainer only with
\* is_correct true); and once a stage's update is in the state, the field
\* the branch function after it reads is there.
C22_NoMissingFieldRead ==
    /\ [](run_error # "missing_field")
    /\ [](\A i \in 1..Len(started) :
             (started[i] \notin in_progress /\ ~(i = Len(started) /\ run_status = "failed"))
                 => BranchKey(started[i]) \subseteq DOMAIN state)
    /\ [][\A n \in Nodes : Invokes(n) => FieldsReady(n, state)]_vars

\* explainer has been invoked in a run without error
C22_Witness ==
    /\ run_error = "none"
    /\ started # <<>> /\ started[Len(started)] = "explainer"
    /\ FieldsReady("explainer", state)
    /\ "explainer" \in in_progress

====
